---- MODULE Spec2Model ----
(***************************************************************************)
(* A model of devdocbot's retrieval core:                                  *)
(*   src/src/vectorStore/index.ts    VectorStore (one live store instance  *)
(*                                   and the snapshot file it shares with  *)
(*                                   earlier and later runs)               *)
(*   src/src/vectorStore/chunker.ts  CodeChunker                           *)
(* Every public method of VectorStore is one action (the caller awaits     *)
(* each call).  The embedding provider and the file system are the         *)
(* environment: an embedding request, a read, a write and an unlink may    *)
(* each fail.                                                              *)
(***************************************************************************)
EXTENDS Integers, Sequences, FiniteSets, TLC

VARIABLES
    documents,      \* VectorStore.documents (index.ts:19)
    encoder,        \* VectorStore.encoder (index.ts:20): "unset" until the pipeline is loaded
    config,         \* VectorStore.config (index.ts:21)
    file,           \* the file at VectorStore.storePath (index.ts:26)
    last,           \* the most recent call on the store and what it returned
    savedDocuments, \* history: this.documents as it was handed to the write that produced `file`
    pipelineLoads,  \* history: how often pipeline(...) has loaded the model in this process
    text,           \* chunker: the text being split
    chunkSize,      \* CodeChunker.chunkSize (chunker.ts:4)
    chunkOverlap,   \* CodeChunker.chunkOverlap (chunker.ts:5)
    startIndex,     \* splitIntoChunks: let startIndex (chunker.ts:14)
    chunks,         \* splitIntoChunks: const chunks (chunker.ts:13)
    pc,             \* chunker: position of the running call
    output,         \* chunker: the CodeChunk[] the call returned
    call,           \* an addChunks call followed from await to await: where it is, its batch
    removal,        \* a deleteCollection call followed from await to await: where it is
    reader,         \* what initialize() of another store instance made of the snapshot file
    run,            \* a generateVectorDocs run: where it is, what it has issued
    vectorA,        \* cosineSimilarity: a
    vectorB,        \* cosineSimilarity: b
    similarity      \* cosineSimilarity: the value returned

storeVars == <<documents, encoder, config, file, last, savedDocuments, pipelineLoads>>
chunkerVars == <<text, chunkSize, chunkOverlap, startIndex, chunks, pc, output>>
inFlightVars == <<call, removal, reader>>
cosineVars == <<vectorA, vectorB, similarity>>
\* what neither the store's methods nor the chunker touch
restVars == <<call, removal, reader, run, vectorA, vectorB, similarity>>
vars == <<documents, encoder, config, file, last, savedDocuments, pipelineLoads,
          text, chunkSize, chunkOverlap, startIndex, chunks, pc, output,
          call, removal, reader, run, vectorA, vectorB, similarity>>

(***************************************************************************)
(* Bounds                                                                  *)
(***************************************************************************)
\* most documents the in-memory collection holds
MaxDocs == 2
\* longest batch handed to addChunks
MaxBatch == 2
\* most model loads followed in one process
MaxLoads == 2
\* longest vector handed to cosineSimilarity on its own
MaxVectorLen == 2
\* largest absolute value of a component of such a vector
MaxComponent == 1
\* most generateVectorDocs runs followed, one after the other
MaxRuns == 2
\* most files a directory scan of a generation run finds
MaxFiles == 2
\* most addChunks calls that fail, over the generation runs followed
MaxFailures == 1
\* longest text handed to the chunker
MaxTextLen == 4
\* largest chunkSize and chunkOverlap a chunker is constructed with
MaxChunkSize == 3
\* most chunks splitIntoChunks collects before the model stops following its loop
MaxChunks == 5

(***************************************************************************)
(* Values                                                                  *)
(***************************************************************************)
\* the JavaScript value undefined (an optional metadata field that is not set)
Undefined == "undefined"

\* CodeChunk['metadata'], by the value each property reads as
MetadataKeys == {"path", "type", "module", "section"}

\* chunks as chunkCode (module set), chunkCode (module left out) and
\* chunkDocumentation build them
CodeChunkWithModule ==
    [content |-> "export const a = 1",
     metadata |-> [path |-> "a.ts", type |-> "code", module |-> "server/a.ts", section |-> Undefined]]

CodeChunkNoModule ==
    [content |-> "// b",
     metadata |-> [path |-> "b.ts", type |-> "comment", module |-> Undefined, section |-> Undefined]]

CodeChunks == {CodeChunkWithModule, CodeChunkNoModule}

\* batches of at most MaxBatch chunks
Batches == UNION {[1..n -> CodeChunks] : n \in 0..MaxBatch}

\* questions put to search
Queries == {"where is a", "a or b"}

\* the vector the encoder returns for a text (pooling: 'mean', normalize: true):
\* one fixed vector per text, a unit direction scaled to integers, never zero
Embed(t) ==
    CASE t = "export const a = 1" -> <<1, 0>>
      [] t = "// b" -> <<0, 1>>
      [] t = "where is a" -> <<1, 0>>
      [] OTHER -> <<1, 1>>

\* search(query, limit = 5)
DefaultLimit == 5

\* limits a caller passes: none, fewer than the collection holds, the default
Limits == {0, 1, 2, DefaultLimit}

\* getDefaultConfig() and a caller's override of it
DefaultConfig ==
    [collectionName |-> "devdocbot_code", dimension |-> 384, chunkSize |-> 1000, chunkOverlap |-> 200]

CustomConfig ==
    [collectionName |-> "custom", dimension |-> 2, chunkSize |-> 500, chunkOverlap |-> 50]

Configs == {DefaultConfig, CustomConfig}

\* new Date().toISOString() at the time of a save: the runs share one day
Timestamps == {"2024-01-01T00:00:00.000Z"}

(***************************************************************************)
(* JSON: JSON.stringify leaves out every property whose value is           *)
(* undefined; a property the parsed object lacks reads as undefined.       *)
(***************************************************************************)
\* JSON.stringify writing null for a property that is undefined (as it does inside arrays)
StringifyObjectNull(o) == [k \in DOMAIN o |-> IF o[k] = Undefined THEN "null" ELSE o[k]]

StringifyObject(o) == [k \in {j \in DOMAIN o : o[j] # Undefined} |-> o[k]]

ParseObject(j, keys) == [k \in keys |-> IF k \in DOMAIN j THEN j[k] ELSE Undefined]

StringifyDocument(d) ==
    [id |-> d.id, content |-> d.content, metadata |-> StringifyObject(d.metadata),
     embedding |-> d.embedding]

ParseDocument(j) ==
    [id |-> j.id, content |-> j.content, metadata |-> ParseObject(j.metadata, MetadataKeys),
     embedding |-> j.embedding]

\* JSON.stringify(data, null, 2) of a StoredData
Stringify(data) ==
    [documents |-> [i \in 1..Len(data.documents) |-> StringifyDocument(data.documents[i])],
     timestamp |-> data.timestamp,
     config |-> data.config]

\* JSON.parse(data) of a snapshot text
Parse(json) ==
    [documents |-> [i \in 1..Len(json.documents) |-> ParseDocument(json.documents[i])],
     timestamp |-> json.timestamp,
     config |-> json.config]

(***************************************************************************)
(* The snapshot file: absent, present with a snapshot text, or present     *)
(* with content JSON.parse rejects (a truncated write).                    *)
(***************************************************************************)
NoText == [documents |-> <<>>, timestamp |-> "", config |-> DefaultConfig]

AbsentFile == [state |-> "absent", content |-> NoText]

CorruptFile == [state |-> "corrupt", content |-> NoText]

SnapshotFile(data) == [state |-> "ok", content |-> Stringify(data)]

\* `chunk_${i}`
ChunkId(i) == <<"chunk_", i>>

\* the VectorDocument pushed for chunk i of a batch (index.ts:85-90)
NewDocument(i, chunk, embedding) ==
    [id |-> ChunkId(i), content |-> chunk.content, metadata |-> chunk.metadata,
     embedding |-> embedding]

\* collections an earlier run has left in the snapshot
EarlierRuns ==
    {<<>>,
     <<NewDocument(0, CodeChunkWithModule, Embed(CodeChunkWithModule.content))>>,
     \* written with another embedding model, whose vectors have three components
     <<NewDocument(0, CodeChunkNoModule, <<0, 1, 0>>)>>}

InitialFiles ==
    {AbsentFile, CorruptFile}
    \cup {SnapshotFile([documents |-> ds, timestamp |-> "2024-01-01T00:00:00.000Z", config |-> c]) :
            ds \in EarlierRuns, c \in Configs}

NoResults == <<>>

\* what a call did: resolved ("ok") or rejected ("error"), why, and for search the
\* arguments it was given and the SearchResult[] it returned
Outcome(op, status, detail, query, limit, results) ==
    [op |-> op, status |-> status, detail |-> detail, query |-> query, limit |-> limit,
     results |-> results]

(***************************************************************************)
(* VectorStore                                                             *)
(***************************************************************************)
\* new VectorStore(config): a fresh instance takes the place of the live one
Construct(cfg) ==
    /\ documents' = <<>>
    /\ encoder' = "unset"
    /\ config' = cfg
    /\ last' = Outcome("construct", "ok", "", "", 0, NoResults)
    /\ UNCHANGED <<file, savedDocuments, pipelineLoads>>
    /\ UNCHANGED chunkerVars
    /\ UNCHANGED restVars

\* what fs.readFile + JSON.parse make of the file: ENOENT, a read error on a
\* file that is there (EACCES, EIO), a parse error, or the parsed snapshot
ReadOutcomes(f) ==
    IF f.state = "absent" THEN {"missing"}
    ELSE IF f.state = "corrupt" THEN {"unparsable"}
    ELSE {"loaded", "unreadable"}

Initialize ==
    \/ \* import('@xenova/transformers') or pipeline(...) rejects: rethrown
       /\ last' = Outcome("initialize", "error", "pipeline", "", 0, NoResults)
       /\ UNCHANGED <<documents, encoder, config, file, savedDocuments>>
       /\ UNCHANGED chunkerVars
       /\ UNCHANGED restVars
    \/ \* pipeline(...) loads the model, whether or not this.encoder is set already;
       \* the inner try/catch swallows every failure of the load of the snapshot
       /\ encoder' = "loaded"
       /\ \E read \in ReadOutcomes(file) :
            /\ documents' = IF read = "loaded" THEN Parse(file.content).documents ELSE documents
            /\ last' = Outcome("initialize", "ok", read, "", 0, NoResults)
       /\ UNCHANGED <<config, file, savedDocuments>>
       /\ UNCHANGED chunkerVars
       /\ UNCHANGED restVars

\* save(): mkdir, then writeFile of the whole collection.  A failure leaves the
\* file as it was (mkdir or open failed) or truncated (the write stopped midway)
SaveOutcomes(docs) ==
    {[ok |-> TRUE, file |-> SnapshotFile([documents |-> docs, timestamp |-> ts, config |-> config])] :
        ts \in Timestamps}
    \cup {[ok |-> FALSE, file |-> file], [ok |-> FALSE, file |-> CorruptFile]}

\* what an addChunks call did: the batch it was given and how many of its chunks
\* were embedded and pushed before it returned
AddChunksOutcome(status, detail, batch, embedded) ==
    [op |-> "addChunks", status |-> status, detail |-> detail, query |-> "", limit |-> 0,
     results |-> NoResults, batch |-> batch, embedded |-> embedded]

\* addChunks catching a failed embedding and storing a zero vector in its place
AddChunksZeroVector(batch) ==
    /\ Len(documents) + Len(batch) <= MaxDocs
    /\ \E n \in 0..Len(batch) :
         /\ (encoder = "unset" /\ Len(batch) > 0) => n = 0
         /\ LET pushed == documents \o [i \in 1..Len(batch) |->
                                           NewDocument(i - 1, batch[i],
                                                       IF i <= n THEN Embed(batch[i].content)
                                                       ELSE <<0, 0>>)]
            IN  /\ documents' = pushed
                /\ \E w \in SaveOutcomes(pushed) :
                     /\ file' = w.file
                     /\ savedDocuments' =
                           IF w.ok THEN pushed
                           ELSE IF w.file.state = "ok" THEN savedDocuments ELSE <<>>
                     /\ last' = AddChunksOutcome(IF w.ok THEN "ok" ELSE "error",
                                                IF w.ok THEN "saved" ELSE "write", batch, n)
    /\ UNCHANGED <<encoder, config, pipelineLoads>>
    /\ UNCHANGED chunkerVars
    /\ UNCHANGED restVars

\* the body of addChunks(chunks): the for loop, then save()
AddChunksToStore(batch) ==
    \E n \in 0..Len(batch) :
       \* chunks 1..n are embedded and pushed; with n < Len(batch) the next
       \* generateEmbedding throws (at once when this.encoder is not set)
       /\ (encoder = "unset" /\ Len(batch) > 0) => n = 0
       /\ LET pushed == documents \o [i \in 1..n |->
                                         NewDocument(i - 1, batch[i], Embed(batch[i].content))]
          IN  /\ documents' = pushed
              /\ IF n < Len(batch)
                 THEN /\ last' = AddChunksOutcome("error", "embedding", batch, n)
                      /\ UNCHANGED <<file, savedDocuments>>
                 ELSE \E w \in SaveOutcomes(pushed) :
                        /\ file' = w.file
                        /\ savedDocuments' =
                              IF w.ok THEN pushed
                              ELSE IF w.file.state = "ok" THEN savedDocuments ELSE <<>>
                        /\ last' = AddChunksOutcome(IF w.ok THEN "ok" ELSE "error",
                                                   IF w.ok THEN "saved" ELSE "write", batch, n)

AddChunks(batch) ==
    /\ Len(documents) + Len(batch) <= MaxDocs
    /\ AddChunksToStore(batch)
    /\ UNCHANGED <<encoder, config, pipelineLoads>>
    /\ UNCHANGED chunkerVars
    /\ UNCHANGED restVars

\* cosineSimilarity going on with vectors of different lengths
LengthMismatchIgnored(a, b) == FALSE

\* if (a.length !== b.length) throw new Error('Vectors must have same length')
LengthMismatch(a, b) == Len(a) # Len(b)

\* cosineSimilarity(a, b) for vectors of one length: the three sums of the loop.
\* The number returned is dotProduct / (sqrt(normA) * sqrt(normB)); it is kept as
\* the sums so that comparisons are exact.
RECURSIVE SumProducts(_, _, _)
SumProducts(a, b, i) == IF i > Len(a) THEN 0 ELSE a[i] * b[i] + SumProducts(a, b, i + 1)

cosineSimilarity(a, b) ==
    [dotProduct |-> SumProducts(a, b, 1), normA |-> SumProducts(a, a, 1), normB |-> SumProducts(b, b, 1)]

\* the order of two similarities as numbers: x -> sign(x) * x^2 is increasing
SignedSquare(s) == (IF s.dotProduct < 0 THEN -1 ELSE 1) * s.dotProduct * s.dotProduct

\* the comparator with its operands exchanged: (a, b) => a.similarity - b.similarity
LessAscending(s, t) == SignedSquare(t) * (s.normA * s.normB) < SignedSquare(s) * (t.normA * t.normB)

Less(s, t) == SignedSquare(s) * (t.normA * t.normB) < SignedSquare(t) * (s.normA * s.normB)

\* results.sort((a, b) => b.similarity - a.similarity): Array.prototype.sort is
\* stable, so x goes behind every element that does not compare after it
Insert(sorted, x) ==
    LET before == {i \in 0..Len(sorted) : \A j \in 1..i : ~Less(sorted[j].similarity, x.similarity)}
        k == CHOOSE i \in before : \A j \in before : j <= i
    IN  SubSeq(sorted, 1, k) \o <<x>> \o SubSeq(sorted, k + 1, Len(sorted))

RECURSIVE SortBySimilarity(_, _)
SortBySimilarity(results, n) ==
    IF n = 0 THEN <<>> ELSE Insert(SortBySimilarity(results, n - 1), results[n])

\* slice(0, limit - 1): one result short
Slice0Short(s, limit) == SubSeq(s, 1, IF limit - 1 < Len(s) THEN limit - 1 ELSE Len(s))

\* slice(0, limit) for limit >= 0
Slice0(s, limit) == SubSeq(s, 1, IF limit < Len(s) THEN limit ELSE Len(s))

\* the value search resolves with for a query embedding of the stored length
Ranked(queryEmbedding, limit) ==
    LET results == [i \in 1..Len(documents) |->
                      [doc |-> documents[i],
                       similarity |-> cosineSimilarity(queryEmbedding, documents[i].embedding)]]
        top == Slice0(SortBySimilarity(results, Len(results)), limit)
    IN  [i \in 1..Len(top) |->
           [content |-> top[i].doc.content, metadata |-> top[i].doc.metadata,
            similarity |-> top[i].similarity]]

\* search without the early return for an empty collection
SearchOutcomesNoEarlyReturn(query, limit) ==
    IF encoder = "unset"
    THEN {Outcome("search", "error", "embedding", query, limit, NoResults)}
    ELSE {Outcome("search", "error", "embedding", query, limit, NoResults),
          Outcome("search", "ok", "ranked", query, limit, Ranked(Embed(query), limit))}

\* every way search(query, limit) can end in the current state
SearchOutcomes(query, limit) ==
    IF Len(documents) = 0
    THEN {Outcome("search", "ok", "empty", query, limit, NoResults)}
    ELSE IF encoder = "unset"
    THEN {Outcome("search", "error", "embedding", query, limit, NoResults)}
    ELSE {Outcome("search", "error", "embedding", query, limit, NoResults)}
         \cup LET queryEmbedding == Embed(query)
              IN  IF \E i \in 1..Len(documents) :
                         LengthMismatch(queryEmbedding, documents[i].embedding)
                  THEN {Outcome("search", "error", "length", query, limit, NoResults)}
                  ELSE {Outcome("search", "ok", "ranked", query, limit,
                                Ranked(queryEmbedding, limit))}

\* search sorting this.documents itself instead of the mapped results
SearchSortingInPlace(query, limit) ==
    /\ last' \in SearchOutcomes(query, limit)
    /\ documents' =
          IF last'.status = "ok" /\ last'.detail = "ranked"
          THEN LET results == [i \in 1..Len(documents) |->
                                 [doc |-> documents[i],
                                  similarity |-> cosineSimilarity(Embed(query),
                                                                  documents[i].embedding)]]
                   sorted == SortBySimilarity(results, Len(results))
               IN  [i \in 1..Len(sorted) |-> sorted[i].doc]
          ELSE documents
    /\ UNCHANGED <<encoder, config, file, savedDocuments, pipelineLoads>>
    /\ UNCHANGED chunkerVars
    /\ UNCHANGED restVars

Search(query, limit) ==
    /\ last' \in SearchOutcomes(query, limit)
    /\ UNCHANGED <<documents, encoder, config, file, savedDocuments, pipelineLoads>>
    /\ UNCHANGED chunkerVars
    /\ UNCHANGED restVars

\* fs.unlink: the file is gone afterwards, or it is still there (EPERM, EACCES)
UnlinkOutcomes(f) ==
    IF f.state = "absent" THEN {[detail |-> "missing", file |-> f]}
    ELSE {[detail |-> "removed", file |-> AbsentFile], [detail |-> "unlink", file |-> f]}

DeleteCollection ==
    /\ documents' = <<>>
    /\ \E u \in UnlinkOutcomes(file) :
         /\ file' = u.file
         /\ savedDocuments' = IF u.file.state = "ok" THEN savedDocuments ELSE <<>>
         \* the catch swallows whatever unlink threw
         /\ last' = Outcome("deleteCollection", "ok", u.detail, "", 0, NoResults)
    /\ UNCHANGED <<encoder, config, pipelineLoads>>
    /\ UNCHANGED chunkerVars
    /\ UNCHANGED restVars

\* the chunker is idle while the store runs
ChunkerIdle ==
    /\ text = <<>>
    /\ chunkSize = 0
    /\ chunkOverlap = 0
    /\ startIndex = 0
    /\ chunks = <<>>
    /\ pc = "idle"
    /\ output = <<>>

\* no call is followed from await to await, no other instance has read the file
NoCall ==
    [pc |-> "none", batch |-> <<>>, embedded |-> 0, writes |-> 0, data |-> NoText,
     unlinked |-> FALSE]

NoRemoval == [pc |-> "none", during |-> "none"]

NoReader == [status |-> "none", read |-> "", documents |-> <<>>, during |-> "none"]

InFlightIdle ==
    /\ call = NoCall
    /\ removal = NoRemoval
    /\ reader = NoReader

\* no generation run is under way
RunIdle == run = [pc |-> "none"]

\* cosineSimilarity is not being looked at on its own
CosineIdle ==
    /\ vectorA = <<>>
    /\ vectorB = <<>>
    /\ similarity = [computed |-> FALSE]

\* a store has been constructed, over whatever an earlier run left on disk
Init ==
    /\ documents = <<>>
    /\ encoder = "unset"
    /\ config \in Configs
    /\ file \in InitialFiles
    /\ last = Outcome("construct", "ok", "", "", 0, NoResults)
    /\ savedDocuments = IF file.state = "ok" THEN Parse(file.content).documents ELSE <<>>
    /\ pipelineLoads = 0
    /\ ChunkerIdle
    /\ InFlightIdle
    /\ RunIdle
    /\ CosineIdle

\* initialize() of a store, the model loads of the process not being counted
InitializeStore ==
    /\ Initialize
    /\ UNCHANGED pipelineLoads

Next ==
    \/ \E cfg \in Configs : Construct(cfg)
    \/ InitializeStore
    \/ \E batch \in Batches : AddChunks(batch)
    \/ \E query \in Queries, limit \in Limits : Search(query, limit)
    \/ DeleteCollection

Spec == Init /\ [][Next]_vars

\* initialize() with every completed pipeline(...) of the process counted
InitializeCounted ==
    /\ pipelineLoads < MaxLoads
    /\ Initialize
    /\ pipelineLoads' = IF last'.status = "ok" THEN pipelineLoads + 1 ELSE pipelineLoads

\* the stores of one process, with its model loads counted
NextProcess ==
    \/ \E cfg \in Configs : Construct(cfg)
    \/ InitializeCounted
    \/ \E batch \in Batches : AddChunks(batch)
    \/ \E query \in Queries, limit \in Limits : Search(query, limit)
    \/ DeleteCollection

SpecProcess == Init /\ [][NextProcess]_vars

\* the documents a reader of the file finds in it
StoredDocuments(f) == IF f.state = "ok" THEN Parse(f.content).documents ELSE <<>>

(***************************************************************************)
(* One addChunks call followed from await to await.  Between two awaits    *)
(* of the call, deleteCollection may be called on the same store, and      *)
(* another store instance (a second process, or a second createVectorStore *)
(* in this one) may run initialize() on the same file.  fs.writeFile opens *)
(* the file with flag 'w', which truncates it, and then writes the text.   *)
(***************************************************************************)
\* snapshots of earlier runs whose documents differ from every document a batch makes
InFlightRuns ==
    {ds \in EarlierRuns : \A i \in 1..Len(ds) : ds[i].embedding # Embed(ds[i].content)}

InFlightFiles ==
    {AbsentFile}
    \cup {SnapshotFile([documents |-> ds, timestamp |-> "2024-01-01T00:00:00.000Z",
                        config |-> DefaultConfig]) : ds \in InFlightRuns}

\* the call is between its first await and its return
InFlight == call.pc \in {"embedding", "mkdir", "writing", "partial"}

\* addChunks(batch) is called: it runs up to its first await, the embedding of
\* the first chunk or, for an empty batch, the mkdir of save()
CallAddChunks(batch) ==
    /\ call.pc = "none"
    /\ Len(documents) + Len(batch) <= MaxDocs
    /\ call' = [NoCall EXCEPT !.pc = IF Len(batch) = 0 THEN "mkdir" ELSE "embedding",
                              !.batch = batch]
    /\ UNCHANGED <<storeVars, chunkerVars, removal, reader, run, cosineVars>>

\* await this.generateEmbedding(chunk.content) resolves: the document is pushed
\* onto this.documents as it is now, and the loop goes on to the next await
EmbeddingResolves ==
    /\ call.pc = "embedding"
    /\ LET i == call.embedded
           chunk == call.batch[i + 1]
       IN  /\ documents' = Append(documents, NewDocument(i, chunk, Embed(chunk.content)))
           /\ call' = [call EXCEPT !.embedded = i + 1,
                                   !.pc = IF i + 1 = Len(call.batch) THEN "mkdir"
                                          ELSE "embedding"]
    /\ UNCHANGED <<encoder, config, file, last, savedDocuments, pipelineLoads>>
    /\ UNCHANGED <<chunkerVars, removal, reader, run, cosineVars>>

\* a rejected embedding after which the collection is saved all the same
\* (save() in a finally block)
EmbeddingRejectsAndSaves ==
    /\ call.pc = "embedding"
    /\ call' = [call EXCEPT !.pc = "mkdir"]
    /\ UNCHANGED <<storeVars, chunkerVars, removal, reader, run, cosineVars>>

\* await this.generateEmbedding(chunk.content) rejects: the catch rethrows
EmbeddingRejects ==
    /\ call.pc = "embedding"
    /\ call' = [call EXCEPT !.pc = "rejected"]
    /\ last' = AddChunksOutcome("error", "embedding", call.batch, call.embedded)
    /\ UNCHANGED <<documents, encoder, config, file, savedDocuments, pipelineLoads>>
    /\ UNCHANGED <<chunkerVars, removal, reader, run, cosineVars>>

\* await fs.mkdir resolves: save() stringifies this.documents as it is now and
\* issues fs.writeFile
MkdirResolves ==
    /\ call.pc = "mkdir"
    /\ \E ts \in Timestamps :
         call' = [call EXCEPT !.pc = "writing",
                              !.writes = call.writes + 1,
                              !.data = Stringify([documents |-> documents, timestamp |-> ts,
                                                  config |-> config])]
    /\ UNCHANGED <<storeVars, chunkerVars, removal, reader, run, cosineVars>>

\* await fs.mkdir rejects: nothing is written, the catch of addChunks rethrows
MkdirRejects ==
    /\ call.pc = "mkdir"
    /\ call' = [call EXCEPT !.pc = "rejected"]
    /\ last' = AddChunksOutcome("error", "write", call.batch, call.embedded)
    /\ UNCHANGED <<documents, encoder, config, file, savedDocuments, pipelineLoads>>
    /\ UNCHANGED <<chunkerVars, removal, reader, run, cosineVars>>

\* fs.writeFile has opened the file: it is there, truncated, the text not yet in it
WriteTruncates ==
    /\ call.pc = "writing"
    /\ file' = CorruptFile
    /\ call' = [call EXCEPT !.pc = "partial"]
    /\ UNCHANGED <<documents, encoder, config, last, savedDocuments, pipelineLoads>>
    /\ UNCHANGED <<chunkerVars, removal, reader, run, cosineVars>>

\* fs.writeFile resolves: the text is in the file, unless the file was unlinked
\* while it was open (the text then went to a file that has no name any more)
WriteResolves ==
    /\ call.pc = "partial"
    /\ file' = IF call.unlinked THEN file ELSE [state |-> "ok", content |-> call.data]
    /\ call' = [call EXCEPT !.pc = "resolved"]
    /\ last' = AddChunksOutcome("ok", "saved", call.batch, call.embedded)
    /\ UNCHANGED <<documents, encoder, config, savedDocuments, pipelineLoads>>
    /\ UNCHANGED <<chunkerVars, removal, reader, run, cosineVars>>

\* fs.writeFile rejects, before it opened the file or midway: the catch rethrows
WriteRejects ==
    /\ call.pc \in {"writing", "partial"}
    /\ call' = [call EXCEPT !.pc = "rejected"]
    /\ last' = AddChunksOutcome("error", "write", call.batch, call.embedded)
    /\ UNCHANGED <<documents, encoder, config, file, savedDocuments, pipelineLoads>>
    /\ UNCHANGED <<chunkerVars, removal, reader, run, cosineVars>>

\* deleteCollection() is called: this.documents = [] and fs.unlink is issued
DeleteCollectionCalled ==
    /\ removal.pc = "none"
    /\ documents' = <<>>
    /\ removal' = [pc |-> "unlinking", during |-> call.pc]
    /\ UNCHANGED <<encoder, config, file, last, savedDocuments, pipelineLoads>>
    /\ UNCHANGED <<chunkerVars, call, reader, run, cosineVars>>

\* await fs.unlink settles, and deleteCollection returns whatever it did
DeleteCollectionReturns ==
    /\ removal.pc = "unlinking"
    /\ \E u \in UnlinkOutcomes(file) :
         /\ file' = u.file
         /\ call' = [call EXCEPT !.unlinked =
                         call.unlinked \/ (call.pc = "partial" /\ u.detail = "removed")]
         /\ last' = Outcome("deleteCollection", "ok", u.detail, "", 0, NoResults)
    /\ removal' = [removal EXCEPT !.pc = "returned"]
    /\ UNCHANGED <<documents, encoder, config, savedDocuments, pipelineLoads>>
    /\ UNCHANGED <<chunkerVars, reader, run, cosineVars>>

\* initialize() of another store instance reads the file as it is now; like
\* every initialize, it starts empty when the read or the parse fails
ReaderInitializes ==
    /\ reader.status = "none"
    /\ \E read \in ReadOutcomes(file) :
         reader' = [status |-> "initialized", read |-> read,
                    documents |-> IF read = "loaded" THEN Parse(file.content).documents
                                  ELSE <<>>,
                    during |-> call.pc]
    /\ UNCHANGED <<storeVars, chunkerVars, call, removal, run, cosineVars>>

\* createVectorStore has returned a store; nothing is in flight yet
InitInFlight ==
    /\ file \in InFlightFiles
    /\ documents = StoredDocuments(file)
    /\ encoder = "loaded"
    /\ config = DefaultConfig
    /\ last = Outcome("initialize", "ok", IF file.state = "ok" THEN "loaded" ELSE "missing",
                      "", 0, NoResults)
    /\ savedDocuments = StoredDocuments(file)
    /\ pipelineLoads = 0
    /\ ChunkerIdle
    /\ InFlightIdle
    /\ RunIdle
    /\ CosineIdle

NextInFlight ==
    \/ \E batch \in Batches : CallAddChunks(batch)
    \/ EmbeddingResolves
    \/ EmbeddingRejects
    \/ MkdirResolves
    \/ MkdirRejects
    \/ WriteTruncates
    \/ WriteResolves
    \/ WriteRejects
    \/ DeleteCollectionCalled
    \/ DeleteCollectionReturns
    \/ ReaderInitializes

SpecInFlight == InitInFlight /\ [][NextInFlight]_vars

(***************************************************************************)
(* cosineSimilarity on its own, over small integer vectors of one length.  *)
(***************************************************************************)
Vectors == UNION {[1..n -> (0 - MaxComponent)..MaxComponent] : n \in 0..MaxVectorLen}

\* the number dotProduct / (Math.sqrt(normA) * Math.sqrt(normB)): 0 / 0 is NaN
\* (a sum of squares that is 0 makes the dot product 0 too)
Quotient(sums) ==
    [nan |-> sums.normA * sums.normB = 0,
     dotProduct |-> sums.dotProduct, normA |-> sums.normA, normB |-> sums.normB]

\* cosineSimilarity(a, a), cosineSimilarity(a, b) and cosineSimilarity(b, a) are computed
CosineSimilarity ==
    /\ ~similarity.computed
    /\ ~LengthMismatch(vectorA, vectorB)
    /\ similarity' = [computed |-> TRUE,
                      aa |-> Quotient(cosineSimilarity(vectorA, vectorA)),
                      ab |-> Quotient(cosineSimilarity(vectorA, vectorB)),
                      ba |-> Quotient(cosineSimilarity(vectorB, vectorA))]
    /\ UNCHANGED <<storeVars, chunkerVars, inFlightVars, run, vectorA, vectorB>>

\* two vectors of one length
InitCosine ==
    /\ vectorA \in Vectors
    /\ vectorB \in {v \in Vectors : Len(v) = Len(vectorA)}
    /\ similarity = [computed |-> FALSE]
    /\ documents = <<>>
    /\ encoder = "unset"
    /\ config = DefaultConfig
    /\ file = AbsentFile
    /\ last = Outcome("construct", "ok", "", "", 0, NoResults)
    /\ savedDocuments = <<>>
    /\ pipelineLoads = 0
    /\ ChunkerIdle
    /\ InFlightIdle
    /\ RunIdle

NextCosine == CosineSimilarity

SpecCosine == InitCosine /\ [][NextCosine]_vars

(***************************************************************************)
(* generateVectorDocs (generators/vector-docs.ts): one run after the       *)
(* other, each in a process of its own, over the same configuration and    *)
(* the same files.  Each file gives one chunk.                             *)
(***************************************************************************)
\* the chunk chunkDocumentation builds for a short text without a header
DocumentationChunk ==
    [content |-> "readme text",
     metadata |-> [path |-> "README.md", type |-> "documentation", module |-> Undefined,
                   section |-> "General"]]

\* the parts of a run, in the order of the code, and what comes after each
Sections == <<"server", "client", "swagger", "readme", "docs">>

NextSection(s) ==
    CASE s = "server" -> "client"
      [] s = "client" -> "swagger"
      [] s = "swagger" -> "readme"
      [] s = "readme" -> "docs"
      [] s = "docs" -> "finish"

\* what a part finds: it is switched off in the configuration, its directory or
\* file cannot be read, or it reads so many files
Skipped == [state |-> "skipped", files |-> 0]

Unreadable == [state |-> "unreadable", files |-> 0]

Read(n) == [state |-> "read", files |-> n]

\* config.structure.server / client with what getAllFiles makes of the root
CodeSources == {Skipped, Unreadable} \cup {Read(n) : n \in 0..MaxFiles}

\* includeSwagger / includeReadme with what fs.readFile makes of the one file
FileSources == {Skipped, Unreadable, Read(1)}

\* getDocumentationFiles(process.cwd()): it catches every read error itself
DocSources == {Read(n) : n \in 0..MaxFiles}

RunInputs ==
    [server : CodeSources, client : CodeSources, swagger : FileSources, readme : FileSources,
     docs : DocSources]

\* the chunks the chunker makes of one file of a part
ChunksOf(section) ==
    IF section \in {"server", "client"} THEN <<CodeChunkWithModule>> ELSE <<DocumentationChunk>>

\* no run has ended yet
NoEarlierRun == [returned |-> FALSE, failed |-> FALSE, fresh |-> FALSE, documents |-> <<>>]

\* a run at the start of part s
AtSection(r, s) == [r EXCEPT !.pc = s, !.stage = "enter", !.pending = 0]

\* const vectorStore = await createVectorStore(getDefaultConfig()), in a new
\* process: new VectorStore(config), then initialize().  It stands before the
\* try, so what initialize() throws leaves generateVectorDocs as it is
CreateVectorStore ==
    /\ run.pc \in {"none", "returned", "thrown"}
    /\ run.runs < MaxRuns
    /\ config' = DefaultConfig
    /\ LET begun == [run EXCEPT !.runs = run.runs + 1, !.hasProcessedFiles = FALSE,
                                !.failed = FALSE, !.afterFailure = FALSE, !.warnings = 0,
                                !.loaded = FALSE, !.fresh = (file.state = "absent"),
                                !.earlier = IF run.pc = "none" THEN NoEarlierRun
                                            ELSE [returned |-> run.pc = "returned",
                                                  failed |-> run.failed,
                                                  fresh |-> run.fresh,
                                                  documents |-> documents]]
       IN  \/ /\ encoder' = "unset"
              /\ documents' = <<>>
              /\ last' = Outcome("initialize", "error", "pipeline", "", 0, NoResults)
              /\ run' = [begun EXCEPT !.pc = "thrown", !.stage = "enter", !.pending = 0]
           \/ /\ encoder' = "loaded"
              /\ \E read \in ReadOutcomes(file) :
                   /\ documents' = IF read = "loaded" THEN Parse(file.content).documents ELSE <<>>
                   /\ last' = Outcome("initialize", "ok", read, "", 0, NoResults)
                   /\ run' = AtSection([begun EXCEPT !.loaded = (read = "loaded")], "server")
    /\ UNCHANGED <<file, savedDocuments, pipelineLoads>>
    /\ UNCHANGED chunkerVars
    /\ UNCHANGED <<inFlightVars, cosineVars>>

\* a part begins: the if around it, then getAllFiles, fs.readFile or
\* getDocumentationFiles
ReadSources ==
    /\ run.pc \in {Sections[i] : i \in 1..Len(Sections)}
    /\ run.stage = "enter"
    /\ LET source == run.inputs[run.pc]
           onward == AtSection(run, NextSection(run.pc))
       IN  run' =
             IF source.state = "skipped" THEN onward
             ELSE IF source.state = "unreadable"
             THEN \* the catch of the part: console.warn
                  [onward EXCEPT !.warnings = run.warnings + 1]
             ELSE IF source.files = 0
             THEN IF run.pc = "docs" THEN onward
                  ELSE \* 'No matching files found'
                       [onward EXCEPT !.warnings = run.warnings + 1]
             ELSE [run EXCEPT !.stage = "files", !.pending = source.files,
                              \* swagger and README set it after their addChunks
                              !.hasProcessedFiles =
                                  run.hasProcessedFiles \/ run.pc \in {"server", "client", "docs"}]
    /\ UNCHANGED storeVars
    /\ UNCHANGED chunkerVars
    /\ UNCHANGED <<inFlightVars, cosineVars>>

\* await vectorStore.addChunks(chunks) for the next file of the part.  What it
\* throws is caught by the catch of the part, which warns; the run goes on
\* with the part after it
AddFileChunks ==
    /\ run.pc \in {Sections[i] : i \in 1..Len(Sections)}
    /\ run.stage = "files"
    /\ run.pending > 0
    /\ AddChunksToStore(ChunksOf(run.pc))
    /\ last'.status = "error" => run.failures < MaxFailures
    /\ LET issued == [run EXCEPT !.afterFailure = run.afterFailure \/ run.failed]
       IN  run' =
             IF last'.status = "error"
             THEN [AtSection(issued, NextSection(run.pc)) EXCEPT
                      !.failed = TRUE, !.failures = run.failures + 1,
                      !.warnings = run.warnings + 1]
             ELSE LET added == [issued EXCEPT !.pending = run.pending - 1,
                                              !.hasProcessedFiles = TRUE]
                  IN  IF added.pending = 0 THEN AtSection(added, NextSection(run.pc))
                      ELSE added
    /\ UNCHANGED <<encoder, config, pipelineLoads>>
    /\ UNCHANGED chunkerVars
    /\ UNCHANGED <<inFlightVars, cosineVars>>

\* the end of the try: return when nothing was processed; else the metadata
\* file is written when options.vectorStorePath is set, and what that write
\* throws is rethrown by the outer catch
Finish ==
    /\ run.pc = "finish"
    /\ \E end \in IF run.hasProcessedFiles THEN {"returned", "thrown"} ELSE {"returned"} :
         run' = [run EXCEPT !.pc = end]
    /\ UNCHANGED storeVars
    /\ UNCHANGED chunkerVars
    /\ UNCHANGED <<inFlightVars, cosineVars>>

\* before the first run: the configuration and the files of the project, and
\* what an earlier use of the store has left on disk
InitGenerate ==
    /\ documents = <<>>
    /\ encoder = "unset"
    /\ config = DefaultConfig
    /\ file \in {AbsentFile, CorruptFile,
                 SnapshotFile([documents |-> <<NewDocument(0, CodeChunkNoModule,
                                                           Embed(CodeChunkNoModule.content))>>,
                               timestamp |-> "2024-01-01T00:00:00.000Z",
                               config |-> DefaultConfig])}
    /\ last = Outcome("construct", "ok", "", "", 0, NoResults)
    /\ savedDocuments = IF file.state = "ok" THEN Parse(file.content).documents ELSE <<>>
    /\ pipelineLoads = 0
    /\ ChunkerIdle
    /\ InFlightIdle
    /\ CosineIdle
    /\ \E inputs \in RunInputs :
         run = [pc |-> "none", stage |-> "enter", pending |-> 0, runs |-> 0, inputs |-> inputs,
                hasProcessedFiles |-> FALSE, failed |-> FALSE, failures |-> 0,
                afterFailure |-> FALSE, warnings |-> 0, loaded |-> FALSE, fresh |-> FALSE, earlier |-> NoEarlierRun]

NextGenerate ==
    \/ CreateVectorStore
    \/ ReadSources
    \/ AddFileChunks
    \/ Finish

SpecGenerate == InitGenerate /\ [][NextGenerate]_vars

(***************************************************************************)
(* Properties of the store                                                 *)
(***************************************************************************)
IsPrefix(s, t) == Len(s) <= Len(t) /\ SubSeq(t, 1, Len(s)) = s

Min(a, b) == IF a < b THEN a ELSE b

\* s >= t for two similarities dotProduct / (sqrt(normA) * sqrt(normB))
AtLeast(s, t) ==
    LET sq(x) == IF x.dotProduct < 0 THEN 0 - x.dotProduct * x.dotProduct
                 ELSE x.dotProduct * x.dotProduct
    IN  sq(s) * t.normA * t.normB >= sq(t) * s.normA * s.normB

\* C1: a successful addChunks leaves a snapshot whose document list is the whole
\* in-memory collection, the documents held before followed by the batch; and no
\* initialize/addChunks call removes a stored document: an addChunks that follows
\* a successful initialize leaves every document the snapshot held in the snapshot.
C1_NoStoredDocumentRemoved ==
    [][(last'.op = "addChunks" /\ last'.status = "ok") =>
         /\ file'.state = "ok"
         /\ StoredDocuments(file') = documents'
         /\ IsPrefix(documents, documents')
         /\ (last.op = "initialize" /\ last.status = "ok") =>
                IsPrefix(StoredDocuments(file), StoredDocuments(file'))]_vars

\* C2: the ids of the collection are pairwise distinct and sequential in insertion
\* order over the whole collection.
C2_IdsDistinctSequential ==
    /\ \A i, j \in 1..Len(documents) : i # j => documents[i].id # documents[j].id
    /\ \A i \in 1..Len(documents) : documents[i].id = ChunkId(i - 1)

\* C3: initialize succeeds when no snapshot file exists and fails when a snapshot
\* file is present but cannot be read or parsed.
C3_CorruptSnapshotRejected ==
    last.op = "initialize" =>
        /\ last.detail = "missing" => last.status = "ok"
        /\ file.state # "absent" /\ last.detail # "loaded" => last.status = "error"

\* C4: the document list initialize loads from a snapshot equals, element for
\* element, the in-memory list of the store that wrote the snapshot.
C4_RoundTrip ==
    (last.op = "initialize" /\ last.detail = "loaded") => documents = savedDocuments

\* a store has loaded a snapshot of two documents written by an addChunks, one of
\* them with a metadata property that is undefined
C4_Witness ==
    /\ last.op = "initialize"
    /\ last.detail = "loaded"
    /\ Len(documents) = 2
    /\ \E i \in 1..2 : documents[i].metadata.module = Undefined

\* C5: search(q, k) returns at most k results, in order of non-increasing similarity.
C5_AtMostLimitSorted ==
    (last.op = "search" /\ last.status = "ok") =>
        /\ Len(last.results) <= last.limit
        /\ \A i \in 1..(Len(last.results) - 1) :
             AtLeast(last.results[i].similarity, last.results[i + 1].similarity)

\* a search returned two results of different similarity, the document stored
\* second first
C5_Witness ==
    /\ last.op = "search"
    /\ last.status = "ok"
    /\ Len(last.results) = 2
    /\ ~AtLeast(last.results[2].similarity, last.results[1].similarity)
    /\ last.results[1].content = documents[2].content
    /\ documents[1].content # documents[2].content

\* the SearchResult of a document for a query
ResultOf(doc, query) ==
    [content |-> doc.content, metadata |-> doc.metadata,
     similarity |-> cosineSimilarity(Embed(query), doc.embedding)]

\* C6: search returns exactly min(limit, n) results, each the result of a document
\* of its own, every document left out has a similarity no higher than every
\* document returned; with [1,0] and [0,1] stored and [1,0] asked, the first
\* document comes first with similarity 1 and the second with similarity 0.
C6_RankingRule ==
    (last.op = "search" /\ last.status = "ok") =>
        LET n == Len(documents)
            r == last.results
        IN  /\ Len(r) = Min(last.limit, n)
            /\ \E f \in [1..Len(r) -> 1..n] :
                 /\ \A i, j \in 1..Len(r) : i # j => f[i] # f[j]
                 /\ \A i \in 1..Len(r) : r[i] = ResultOf(documents[f[i]], last.query)
                 /\ \A j \in 1..n :
                      (\A i \in 1..Len(r) : f[i] # j) =>
                          \A i \in 1..Len(r) :
                              AtLeast(r[i].similarity, ResultOf(documents[j], last.query).similarity)
            /\ ( /\ n = 2
                 /\ documents[1].embedding = <<1, 0>>
                 /\ documents[2].embedding = <<0, 1>>
                 /\ Embed(last.query) = <<1, 0>>
                 /\ last.limit >= 2 ) =>
                   /\ Len(r) = 2
                   /\ r[1].content = documents[1].content
                   /\ r[1].similarity.dotProduct = 1
                   /\ r[1].similarity.normA * r[1].similarity.normB = 1
                   /\ r[2].content = documents[2].content
                   /\ r[2].similarity.dotProduct = 0

\* a search with limit 1 over two documents returned the second one and left out
\* the first, whose similarity is lower
C6_Witness ==
    /\ last.op = "search"
    /\ last.status = "ok"
    /\ last.limit = 1
    /\ Len(documents) = 2
    /\ Len(last.results) = 1
    /\ last.results[1] = ResultOf(documents[2], last.query)
    /\ ~AtLeast(ResultOf(documents[1], last.query).similarity, last.results[1].similarity)

\* C7: search on an empty collection returns an empty sequence, not an error.
C7_EmptyCollectionEmptyResult ==
    (last.op = "search" /\ Len(documents) = 0) =>
        (last.status = "ok" /\ last.results = <<>>)

\* a search ran on the empty collection of a store whose encoder is not loaded
C7_Witness ==
    /\ last.op = "search"
    /\ Len(documents) = 0
    /\ encoder = "unset"
    /\ last.limit = 0

\* C8: once deleteCollection has returned, search(q, 5) returns an empty sequence
\* for every q and the initialize of a fresh store finds no snapshot.
C8_DeleteLeavesNothing ==
    last.op = "deleteCollection" =>
        /\ last.status = "ok"
        /\ \A q \in Queries :
             SearchOutcomes(q, DefaultLimit)
                 = {Outcome("search", "ok", "empty", q, DefaultLimit, NoResults)}
        /\ ReadOutcomes(file) = {"missing"}

\* C14: a search whose query embedding differs in length from at least one stored
\* embedding is rejected with an error and returns no results, neither a ranking
\* over cut or padded vectors nor the documents whose length matches.
C14_LengthMismatchRejected ==
    ( /\ last.op = "search"
      /\ \E i \in 1..Len(documents) :
             Len(documents[i].embedding) # Len(Embed(last.query)) ) =>
        (last.status = "error" /\ last.results = <<>>)

\* a search was rejected for the length of one stored embedding while another
\* stored embedding has the length of the query embedding
C14_Witness ==
    /\ last.op = "search"
    /\ last.status = "error"
    /\ last.detail = "length"
    /\ \E i, j \in 1..Len(documents) :
         /\ Len(documents[i].embedding) = Len(Embed(last.query))
         /\ Len(documents[j].embedding) # Len(Embed(last.query))

\* C15: in every reachable state the embeddings of the documents of the
\* collection, in memory and in the snapshot, all have one identical length:
\* neither addChunks nor initialize brings in a document of another length.
C15_OneEmbeddingLength ==
    \A collection \in {documents, StoredDocuments(file)} :
        \A i, j \in 1..Len(collection) :
            Len(collection[i].embedding) = Len(collection[j].embedding)

\* C16: the configuration recorded in the snapshot of a collection is fixed: no
\* step that leaves the snapshot in place with the documents it held before
\* changes the configuration recorded in it.
C16_ConfigurationFixed ==
    [][( /\ file.state = "ok"
         /\ file'.state = "ok"
         /\ StoredDocuments(file) # <<>>
         /\ IsPrefix(StoredDocuments(file), StoredDocuments(file')) ) =>
            file'.content.config = file.content.config]_vars

\* C17: every addChunks or search call on a store whose initialize() has not
\* completed successfully fails with an error, for every batch and every
\* collection, and leaves the in-memory collection and the snapshot file unchanged.
C17_RejectedBeforeInitialize ==
    [][(encoder = "unset" /\ last'.op \in {"addChunks", "search"}) =>
         /\ last'.status = "error"
         /\ documents' = documents
         /\ file' = file]_vars

\* C18: in one process the model is loaded at most once, whatever stores are
\* created and however often initialize() is called on them.
C18_ModelLoadedOnce == pipelineLoads <= 1

\* C19: a failed snapshot write makes addChunks reject, and a failed removal of a
\* snapshot that is there makes deleteCollection reject; in both cases the
\* in-memory collection stays as the call left it (the batch appended, or emptied).
C19_PersistenceFailurePropagated ==
    [][/\ (last'.op = "addChunks" /\ last'.detail = "write") =>
            /\ last'.status = "error"
            /\ Len(documents') = Len(documents) + Len(last'.batch)
            /\ IsPrefix(documents, documents')
       /\ (last'.op = "deleteCollection" /\ last'.detail = "unlink") =>
            /\ last'.status = "error"
            /\ documents' = <<>>]_vars

\* a vector of zeros
IsZero(embedding) == \A i \in 1..Len(embedding) : embedding[i] = 0

\* C20: when the embedding of chunk j of a batch fails, addChunks rejects at once:
\* the collection has grown by the j-1 chunks before it and by nothing else, no
\* document carries a zero vector, and nothing is written.
C20_EmbeddingFailureAborts ==
    [][(last'.op = "addChunks" /\ last'.embedded < Len(last'.batch)) =>
         /\ last'.status = "error"
         /\ Len(documents') = Len(documents) + last'.embedded
         /\ IsPrefix(documents, documents')
         /\ \A i \in 1..last'.embedded :
              documents'[Len(documents) + i].content = last'.batch[i].content
         /\ \A i \in (Len(documents) + 1)..Len(documents') : ~IsZero(documents'[i].embedding)
         /\ file' = file]_vars

\* the embedding of the second chunk of a batch of two failed after the first
\* chunk was embedded and pushed
C20_Witness ==
    /\ last.op = "addChunks"
    /\ last.status = "error"
    /\ Len(last.batch) = 2
    /\ last.embedded = 1
    /\ Len(documents) = 1
    /\ documents[1].content = last.batch[1].content
    /\ documents[1].embedding = Embed(last.batch[1].content)

\* C21: the documents appended by an addChunks call that then failed on a later
\* embedding are not written by the next successful addChunks: its snapshot holds
\* the documents the collection had before the failed call and the new batch.
C21_PartialBatchNotPersisted ==
    [][( /\ last.op = "addChunks"
         /\ last.detail = "embedding"
         /\ last.embedded > 0
         /\ last'.op = "addChunks"
         /\ last'.status = "ok" ) =>
            Len(StoredDocuments(file')) = (Len(documents) - last.embedded) + Len(last'.batch)]_vars

(***************************************************************************)
(* CodeChunker.  A text is a sequence of characters; a call is followed    *)
(* through the loop of splitIntoChunks one iteration at a time.            *)
(***************************************************************************)
Alphabet == {"a", "/", "*", "\n"}

\* a file of 2500 characters: a quarter of block comment openers, a quarter of
\* stars, a quarter of code and a quarter of blank lines
LongText ==
    [i \in 1..2500 |->
        IF i <= 625 THEN "/" ELSE IF i <= 1250 THEN "*" ELSE IF i <= 1875 THEN "a" ELSE "\n"]

Texts == UNION {[1..n -> Alphabet] : n \in 0..MaxTextLen} \cup {LongText}

\* new CodeChunker(chunkSize, chunkOverlap): the constructor checks neither
ChunkSizes == 1..MaxChunkSize

ChunkOverlaps == 0..MaxChunkSize

\* constructor(chunkSize: number = 1000, chunkOverlap: number = 200)
DefaultChunkSize == 1000

DefaultChunkOverlap == 200

\* the chunkers a caller constructs: createChunker(chunkSize, chunkOverlap) and createChunker()
Chunkers == (ChunkSizes \X ChunkOverlaps) \cup {<<DefaultChunkSize, DefaultChunkOverlap>>}

\* String.prototype.slice(start, end): a negative index counts from the end
SliceIndex(len, i) == IF i < 0 THEN (IF len + i < 0 THEN 0 ELSE len + i) ELSE (IF i > len THEN len ELSE i)

Slice(t, start, end) == SubSeq(t, SliceIndex(Len(t), start) + 1, SliceIndex(Len(t), end))

IsWhitespace(c) == c \in {"\n", " ", "\t"}

\* String.prototype.trim()
Trim(t) ==
    LET kept == {i \in 1..Len(t) : ~IsWhitespace(t[i])}
    IN  IF kept = {} THEN <<>>
        ELSE SubSeq(t, CHOOSE i \in kept : \A j \in kept : i <= j,
                       CHOOSE i \in kept : \A j \in kept : j <= i)

\* String.prototype.startsWith(prefix)
StartsWith(t, prefix) == Len(t) >= Len(prefix) /\ SubSeq(t, 1, Len(prefix)) = prefix

detectChunkType(content) ==
    IF StartsWith(Trim(content), <<"/", "*", "*">>) \/ StartsWith(Trim(content), <<"/", "*">>)
    THEN "documentation"
    ELSE IF StartsWith(Trim(content), <<"/", "/">>) THEN "comment"
    ELSE "code"

\* content.match(/^#+\s+(.+)$/m): a line that starts with '#'s, then whitespace,
\* then the rest of a line; no text over Alphabet has a '#'
detectSection(content) ==
    IF \E i \in 1..Len(content) : content[i] = "#" THEN "header" ELSE "General"

\* content.split('\n').length
LineCount(content) == 1 + Cardinality({i \in 1..Len(content) : content[i] = "\n"})

\* `this.chunkOverlap / 40` need not be whole: line numbers are kept in 40ths
LineScale == 40

\* currentLine (in 40ths) when the map callback reaches chunk index (from 0)
RECURSIVE currentLine(_, _, _)
currentLine(cs, overlap, index) ==
    IF index = 0 THEN 1 * LineScale
    ELSE currentLine(cs, overlap, index - 1) + LineCount(cs[index]) * LineScale - overlap

\* chunkCode classifying every chunk by the beginning of the file
chunkCodeResultFileType(cs, overlap, path, module) ==
    [i \in 1..Len(cs) |->
        [content |-> cs[i],
         metadata |-> [path |-> path,
                       type |-> detectChunkType(cs[1]),
                       module |-> module,
                       startLine |-> currentLine(cs, overlap, i - 1),
                       endLine |-> currentLine(cs, overlap, i - 1)
                                   + (LineCount(cs[i]) - 1) * LineScale]]]

\* the CodeChunk[] chunkCode returns for the chunks of splitIntoChunks
chunkCodeResult(cs, overlap, path, module) ==
    [i \in 1..Len(cs) |->
        [content |-> cs[i],
         metadata |-> [path |-> path,
                       type |-> detectChunkType(cs[i]),
                       module |-> module,
                       startLine |-> currentLine(cs, overlap, i - 1),
                       endLine |-> currentLine(cs, overlap, i - 1)
                                   + (LineCount(cs[i]) - 1) * LineScale]]]

\* the CodeChunk[] chunkDocumentation returns
chunkDocumentationResult(cs, path) ==
    [i \in 1..Len(cs) |->
        [content |-> cs[i],
         metadata |-> [path |-> path, type |-> "documentation", section |-> detectSection(cs[i])]]]

Running == pc \in {"chunkCode", "chunkDocumentation"}

\* chunkCode(file, module) is called: splitIntoChunks(file.content) begins.  A call
\* keeps nothing in the chunker, so one call per constructed chunker is followed
ChunkCode(t) ==
    /\ pc = "idle"
    /\ text' = t
    /\ startIndex' = 0
    /\ chunks' = <<>>
    /\ output' = <<>>
    /\ pc' = "chunkCode"
    /\ UNCHANGED <<chunkSize, chunkOverlap>>
    /\ UNCHANGED storeVars
    /\ UNCHANGED restVars

\* chunkDocumentation(content, path) is called: splitIntoChunks(content) begins
ChunkDocumentation(t) ==
    /\ pc = "idle"
    /\ text' = t
    /\ startIndex' = 0
    /\ chunks' = <<>>
    /\ output' = <<>>
    /\ pc' = "chunkDocumentation"
    /\ UNCHANGED <<chunkSize, chunkOverlap>>
    /\ UNCHANGED storeVars
    /\ UNCHANGED restVars

\* an iteration that moves on by the whole chunk size, leaving the overlap out
SplitStepNoOverlap ==
    /\ Running
    /\ startIndex < Len(text)
    /\ Len(chunks) < MaxChunks
    /\ chunks' = Append(chunks, Slice(text, startIndex, startIndex + chunkSize))
    /\ startIndex' = startIndex + chunkSize
    /\ UNCHANGED <<text, chunkSize, chunkOverlap, pc, output>>
    /\ UNCHANGED storeVars
    /\ UNCHANGED restVars

\* an iteration that slices up to the chunk size, not up to the start plus the chunk size
SplitStepEndAtChunkSize ==
    /\ Running
    /\ startIndex < Len(text)
    /\ Len(chunks) < MaxChunks
    /\ chunks' = Append(chunks, Slice(text, startIndex, chunkSize))
    /\ startIndex' = startIndex + chunkSize - chunkOverlap
    /\ UNCHANGED <<text, chunkSize, chunkOverlap, pc, output>>
    /\ UNCHANGED storeVars
    /\ UNCHANGED restVars

\* one iteration of while (startIndex < text.length)
SplitStep ==
    /\ Running
    /\ startIndex < Len(text)
    /\ Len(chunks) < MaxChunks
    /\ chunks' = Append(chunks, Slice(text, startIndex, startIndex + chunkSize))
    /\ startIndex' = startIndex + chunkSize - chunkOverlap
    /\ UNCHANGED <<text, chunkSize, chunkOverlap, pc, output>>
    /\ UNCHANGED storeVars
    /\ UNCHANGED restVars

\* the loop is left and chunkCode maps the chunks
ReturnCode ==
    /\ pc = "chunkCode"
    /\ ~(startIndex < Len(text))
    /\ output' = chunkCodeResult(chunks, chunkOverlap, "a.ts", "server/a.ts")
    /\ pc' = "returnedCode"
    /\ UNCHANGED <<text, chunkSize, chunkOverlap, startIndex, chunks>>
    /\ UNCHANGED storeVars
    /\ UNCHANGED restVars

\* the loop is left and chunkDocumentation maps the chunks
ReturnDocumentation ==
    /\ pc = "chunkDocumentation"
    /\ ~(startIndex < Len(text))
    /\ output' = chunkDocumentationResult(chunks, "README.md")
    /\ pc' = "returnedDocumentation"
    /\ UNCHANGED <<text, chunkSize, chunkOverlap, startIndex, chunks>>
    /\ UNCHANGED storeVars
    /\ UNCHANGED restVars

\* a chunker has been constructed; the store is not used
InitChunker ==
    /\ documents = <<>>
    /\ encoder = "unset"
    /\ config = DefaultConfig
    /\ file = AbsentFile
    /\ last = Outcome("construct", "ok", "", "", 0, NoResults)
    /\ savedDocuments = <<>>
    /\ pipelineLoads = 0
    /\ text = <<>>
    /\ \E chunker \in Chunkers :
         /\ chunkSize = chunker[1]
         /\ chunkOverlap = chunker[2]
    /\ startIndex = 0
    /\ chunks = <<>>
    /\ pc = "idle"
    /\ output = <<>>
    /\ InFlightIdle
    /\ RunIdle
    /\ CosineIdle

NextChunker ==
    \/ \E t \in Texts : ChunkCode(t)
    \/ \E t \in Texts : ChunkDocumentation(t)
    \/ SplitStep
    \/ ReturnCode
    \/ ReturnDocumentation

SpecChunker == InitChunker /\ [][NextChunker]_vars

(***************************************************************************)
(* Properties of the chunker                                               *)
(***************************************************************************)
Returned == pc \in {"returnedCode", "returnedDocumentation"}

\* the first chunk whole, then every later chunk without its first `overlap` characters
RECURSIVE Reassemble(_, _, _)
Reassemble(out, overlap, n) ==
    IF n = 0 THEN <<>>
    ELSE IF n = 1 THEN out[1].content
    ELSE Reassemble(out, overlap, n - 1)
         \o SubSeq(out[n].content, overlap + 1, Len(out[n].content))

\* C9: for chunkSize > chunkOverlap >= 0, the first chunk followed by every later
\* chunk less its first chunkOverlap characters is exactly the text.
C9_ChunksReassembleText ==
    (Returned /\ chunkSize > chunkOverlap) =>
        Reassemble(output, chunkOverlap, Len(output)) = text

\* a text was split into three overlapping chunks, the last one shorter than the overlap
C9_Witness ==
    /\ Returned
    /\ chunkSize > chunkOverlap
    /\ chunkOverlap = 2
    /\ Len(output) >= 3
    /\ Len(output[Len(output)].content) < chunkOverlap

\* C10: for chunkSize > chunkOverlap >= 0, the empty text yields no chunk and a
\* non-empty text shorter than chunkSize yields one chunk, the whole text.
C10_EmptyAndShortTexts ==
    (Returned /\ chunkSize > chunkOverlap) =>
        /\ Len(text) = 0 => Len(output) = 0
        /\ (0 < Len(text) /\ Len(text) < chunkSize) =>
               (Len(output) = 1 /\ output[1].content = text)

\* C11: for chunkSize > chunkOverlap >= 0, every chunk but the final one has
\* exactly chunkSize characters, and the last chunkOverlap characters of each
\* chunk are the first chunkOverlap characters of the chunk that follows it.
C11_ExactOverlap ==
    (Returned /\ chunkSize > chunkOverlap) =>
        \A i \in 1..(Len(output) - 1) :
            LET this == output[i].content
                following == output[i + 1].content
            IN  /\ Len(this) = chunkSize
                /\ Len(following) >= chunkOverlap
                /\ SubSeq(this, Len(this) - chunkOverlap + 1, Len(this))
                       = SubSeq(following, 1, chunkOverlap)

\* the window chunk i (from 0) of the text is said to be
Window(i) ==
    LET start == i * (chunkSize - chunkOverlap)
    IN  SubSeq(text, start + 1, Min(Len(text), start + chunkSize))

\* C12: chunk i of a text of length L is the slice
\* [i*(chunkSize-chunkOverlap), min(L, i*(chunkSize-chunkOverlap)+chunkSize)), for
\* every i whose start is below L; with chunkSize 1000, chunkOverlap 200 and
\* L = 2500 there are 4 chunks, the first three [0,1000), [800,1800), [1600,2500),
\* the third of at most 1000 characters, and the windows cover [0,2500).
C12_WindowPositions ==
    Returned =>
        /\ Len(output) =
               Cardinality({i \in 0..Len(text) : i * (chunkSize - chunkOverlap) < Len(text)})
        /\ \A i \in 1..Len(output) : output[i].content = Window(i - 1)
        /\ ( /\ chunkSize = 1000
             /\ chunkOverlap = 200
             /\ Len(text) = 2500 ) =>
               /\ Len(output) = 4
               /\ output[1].content = SubSeq(text, 1, 1000)
               /\ output[2].content = SubSeq(text, 801, 1800)
               /\ output[3].content = SubSeq(text, 1601, 2500)
               /\ Len(output[3].content) <= 1000
               /\ \A p \in 1..2500 :
                    \E i \in 1..Len(output) :
                        /\ (i - 1) * 800 < p
                        /\ p <= (i - 1) * 800 + Len(output[i].content)

\* the default chunker has split a text of 2500 characters into 4 chunks
C12_Witness ==
    /\ Returned
    /\ chunkSize = 1000
    /\ chunkOverlap = 200
    /\ Len(text) = 2500
    /\ Len(output) = 4
    /\ Len(output[4].content) = 100

\* the content begins with text that is neither white space nor a comment opener
BeginsWithCode(content) ==
    /\ Len(content) > 0
    /\ content[1] \notin {"\n", " ", "\t"}
    /\ ~(Len(content) >= 2 /\ content[1] = "/" /\ content[2] \in {"/", "*"})

\* C13: chunkCode classifies each chunk from its own leading characters, whatever
\* the other chunks of the file are: a chunk that begins with /** is
\* documentation, one that begins with // is a comment, one that begins with
\* other (code) text is code.
C13_ClassifiedByOwnStart ==
    pc = "returnedCode" =>
        /\ \A i \in 1..Len(output) :
             LET content == output[i].content
                 type == output[i].metadata.type
             IN  /\ (Len(content) >= 3 /\ SubSeq(content, 1, 3) = <<"/", "*", "*">>) =>
                        type = "documentation"
                 /\ (Len(content) >= 2 /\ SubSeq(content, 1, 2) = <<"/", "/">>) =>
                        type = "comment"
                 /\ BeginsWithCode(content) => type = "code"
        /\ \A i, j \in 1..Len(output) :
             output[i].content = output[j].content =>
                 output[i].metadata.type = output[j].metadata.type

\* one file gave a comment chunk first, then a documentation chunk that begins
\* with /**, then a code chunk
C13_Witness ==
    /\ pc = "returnedCode"
    /\ Len(output) >= 3
    /\ output[1].metadata.type = "comment"
    /\ output[2].metadata.type = "documentation"
    /\ Len(output[2].content) >= 3
    /\ SubSeq(output[2].content, 1, 3) = <<"/", "*", "*">>
    /\ output[3].metadata.type = "code"
    /\ BeginsWithCode(output[3].content)

\* C24: every chunker a caller can construct has chunkOverlap < chunkSize, so
\* that every iteration of the loop of splitIntoChunks moves the start index
\* forward and chunkCode and chunkDocumentation terminate on every text.
C24_ForwardProgress ==
    [][(Running /\ Len(chunks') > Len(chunks)) =>
         /\ chunkOverlap < chunkSize
         /\ startIndex' > startIndex]_vars

\* C25: for chunkSize > chunkOverlap >= 0, every chunk of chunkCode has whole
\* line numbers with 1 <= startLine <= endLine, the first chunk starts at line 1,
\* and endLine - startLine is the number of newline characters of the chunk.
\* (Line numbers are kept in units of 1/LineScale.)
C25_ValidLineRange ==
    (pc = "returnedCode" /\ chunkSize > chunkOverlap) =>
        /\ Len(output) > 0 => output[1].metadata.startLine = 1 * LineScale
        /\ \A i \in 1..Len(output) :
             LET startLine == output[i].metadata.startLine
                 endLine == output[i].metadata.endLine
                 newlines == Cardinality({k \in 1..Len(output[i].content) :
                                             output[i].content[k] = "\n"})
             IN  /\ startLine % LineScale = 0
                 /\ endLine % LineScale = 0
                 /\ 1 * LineScale <= startLine
                 /\ startLine <= endLine
                 /\ endLine - startLine = newlines * LineScale

(***************************************************************************)
(* Properties of a call in flight                                          *)
(***************************************************************************)
\* C22: an initialize() of another store instance that runs while a save() is
\* under way never finds a partially written snapshot: it does not fall back to
\* an empty collection because the text it read could not be parsed.
C22_SnapshotReadWhole ==
    (reader.status = "initialized" /\ reader.during \in {"writing", "partial"}) =>
        reader.read # "unparsable"

\* the documents addChunks makes of a batch
BatchDocuments(batch) ==
    {NewDocument(i - 1, batch[i], Embed(batch[i].content)) : i \in 1..Len(batch)}

\* C30: once a deleteCollection called while an addChunks was in flight has
\* returned and the addChunks has finished, no document of its batch is in the
\* in-memory collection or in a snapshot file.
C30_DeleteClearsInFlightBatch ==
    ( /\ removal.pc = "returned"
      /\ removal.during \in {"embedding", "mkdir", "writing", "partial"}
      /\ call.pc \in {"resolved", "rejected"} ) =>
        /\ \A i \in 1..Len(documents) : documents[i] \notin BatchDocuments(call.batch)
        /\ \A i \in 1..Len(StoredDocuments(file)) :
             StoredDocuments(file)[i] \notin BatchDocuments(call.batch)

\* the addChunks call has returned
Finished == call.pc \in {"resolved", "rejected"}

\* C26 as stated: an addChunks call issues at most one write of the snapshot, no
\* write when an embedding of the batch fails, and exactly one, after the last
\* chunk was appended, when every embedding succeeds (also for an empty batch).
C26_ExactlyOneWrite ==
    /\ call.writes <= 1
    /\ call.writes = 1 => call.embedded = Len(call.batch)
    /\ (Finished /\ call.embedded < Len(call.batch)) => call.writes = 0
    /\ (Finished /\ call.embedded = Len(call.batch)) => call.writes = 1

\* C26, amended: an addChunks call issues at most one write of the snapshot, none
\* before the last chunk of the batch was appended and none when an embedding
\* fails; a call that resolves has issued exactly one (also for an empty batch).
\* A call whose embeddings all succeeded and whose mkdir of the snapshot directory
\* failed rejects without a write.
C26_AtMostOneWrite ==
    /\ call.writes <= 1
    /\ call.writes = 1 => call.embedded = Len(call.batch)
    /\ (Finished /\ call.embedded < Len(call.batch)) => call.writes = 0
    /\ call.pc = "resolved" => call.writes = 1

\* an addChunks of two chunks has resolved after one write
C26_Witness ==
    /\ call.pc = "resolved"
    /\ Len(call.batch) = 2
    /\ call.embedded = 2
    /\ call.writes = 1

(***************************************************************************)
(* Properties of cosineSimilarity                                          *)
(***************************************************************************)
\* the number is 1: NaN is not, and d / (sqrt(p) * sqrt(q)) = 1 iff d > 0 and d * d = p * q
IsOne(x) ==
    /\ ~x.nan
    /\ x.dotProduct > 0
    /\ x.dotProduct * x.dotProduct = x.normA * x.normB

\* x === y for two numbers: NaN equals nothing, itself included
SameNumber(x, y) ==
    /\ ~x.nan
    /\ ~y.nan
    /\ AtLeast(x, y)
    /\ AtLeast(y, x)

\* C23: for all vectors a and b of one length, cosineSimilarity(a, a) = 1 and
\* cosineSimilarity(a, b) = cosineSimilarity(b, a).
C23_SelfOneAndSymmetric ==
    similarity.computed =>
        /\ IsOne(similarity.aa)
        /\ SameNumber(similarity.ab, similarity.ba)

(***************************************************************************)
(* Properties of search as a reader                                        *)
(***************************************************************************)
\* C29: search is read-only: for every query and limit, whether it returns
\* results or fails, it leaves the in-memory collection (the documents, their
\* fields and their order) and the snapshot file as they were.
C29_SearchReadOnly ==
    [][last'.op = "search" => (documents' = documents /\ file' = file)]_vars

\* a search over a saved collection of two documents has returned both, the
\* document stored second ranked first, and the collection is still in the
\* order in which it was saved
C29_Witness ==
    /\ last.op = "search"
    /\ last.status = "ok"
    /\ Len(documents) = 2
    /\ Len(last.results) = 2
    /\ last.results[1].content = documents[2].content
    /\ last.results[2].content = documents[1].content
    /\ documents[1].content # documents[2].content
    /\ Less(last.results[2].similarity, last.results[1].similarity)
    /\ file.state = "ok"
    /\ StoredDocuments(file) = documents

(***************************************************************************)
(* Properties of a generation run                                          *)
(***************************************************************************)
\* C27: in a generateVectorDocs run a failure of addChunks (an embedding that
\* fails, a snapshot write that fails) is a hard stop: no further addChunks is
\* issued in that run, and the run does not return normally, the failure
\* leaves generateVectorDocs as an exception.
C27_StoreFailureIsHardStop ==
    /\ run.failed => ~run.afterFailure
    /\ run.pc = "returned" => ~run.failed

\* the content and metadata of the documents, in order
Contents(docs) == [i \in 1..Len(docs) |-> [content |-> docs[i].content, metadata |-> docs[i].metadata]]

\* C28: a second generateVectorDocs run over unchanged inputs, with the
\* snapshot of the first run (which began with no snapshot on disk) present
\* and loaded, leaves the collection with the documents the first run left:
\* every chunk once, no more documents.
C28_RebuiltWholesale ==
    ( /\ run.pc = "returned"
      /\ run.runs = 2
      /\ ~run.failed
      /\ run.loaded
      /\ run.earlier.returned
      /\ ~run.earlier.failed
      /\ run.earlier.fresh ) =>
          /\ Len(documents) = Len(run.earlier.documents)
          /\ Contents(documents) = Contents(run.earlier.documents)

====
